---- MODULE Spec2Model ----
(***************************************************************************)
(* Model of blrec's HLS segment dumper (SegmentDumper, the "Segment        *)
(* Rotator"), of the ffprobe wrapper it calls, and of the stream           *)
(* normalisation of ffprobe's output.                                      *)
(*                                                                         *)
(* The dumper is a reactivex operator.  The callbacks on_next, on_error,   *)
(* on_completed and dispose of SegmentDumper._dump are modelled            *)
(* statement by statement as operators on a record holding the dumper's    *)
(* fields and the closure variables of one subscription.  Spec runs each   *)
(* callback as one atomic action (one driving context).  ConcSpec runs     *)
(* on_next one statement at a time, with dispose called from another       *)
(* thread between any two of its statements.                               *)
(***************************************************************************)
EXTENDS Integers, Sequences, FiniteSets, TLC

\* ------------------------------------------------------------------ bounds
\* on_next calls delivered by the upstream source, over all sessions
MaxItems == 3
\* subscriptions made to the dumper's observable
MaxSessions == 2
\* stream descriptors in one output of the ffprobe process
MaxStreams == 3
\* profiles the prober sends to the analyser
MaxProfiles == 2

\* ------------------------------------------------------------ stream profiles
\* A dict is a function from keys to values; dict.get(k, default):
Get(d, k, default) == IF k \in DOMAIN d THEN d[k] ELSE default

\* The empty dict {}.
EmptyDict == [k \in {} |-> ""]

\* Stream descriptors as ffprobe prints them (the fields the code reads).
VideoA ==
  [codec_type |-> "video", codec_name |-> "h264", width |-> 1920, height |-> 1080,
   coded_width |-> 1920, coded_height |-> 1088]
VideoB ==
  [codec_type |-> "video", codec_name |-> "hevc", width |-> 1280, height |-> 720,
   coded_width |-> 1280, coded_height |-> 720, tags |-> [encoder |-> "own"]]
AudioA ==
  [codec_type |-> "audio", codec_name |-> "aac", sample_rate |-> "48000",
   channels |-> 2, bit_rate |-> "128000"]
AudioB ==
  [codec_type |-> "audio", codec_name |-> "aac", sample_rate |-> "44100",
   channels |-> 1]

\* What json.loads(stdout) can be for the payloads fed to the dumper: the
\* streams in the order ffprobe lists them, and format.tags.
RawProfiles ==
  { [streams |-> <<VideoA, AudioA>>, format |-> [tags |-> [encoder |-> "Lavf"]]],
    [streams |-> <<AudioB, VideoA>>, format |-> [tags |-> EmptyDict]],
    [streams |-> <<VideoB>>, format |-> EmptyDict],
    [streams |-> <<AudioA>>, format |-> [tags |-> [encoder |-> "Lavf"]]] }

\* [s for s in streams if s.get('codec_type') == kind]
RECURSIVE StreamsOfKind(_, _)
StreamsOfKind(streams, kind) ==
  IF streams = <<>> THEN <<>>
  ELSE LET rest == StreamsOfKind(Tail(streams), kind)
       IN  IF Get(Head(streams), "codec_type", "") = kind
           THEN <<Head(streams)>> \o rest
           ELSE rest

PlaceholderVideo ==
  [codec_type |-> "video", codec_name |-> "none", width |-> 0, height |-> 0,
   coded_width |-> 0, coded_height |-> 0, tags |-> EmptyDict]
PlaceholderAudio ==
  [codec_type |-> "audio", codec_name |-> "none", sample_rate |-> "0",
   channels |-> 0, bit_rate |-> "", tags |-> EmptyDict]

\* video_stream['tags']['encoder'] = encoder, when the stream has none
WithEncoder(stream, encoder) ==
  LET tags == Get(stream, "tags", EmptyDict)
      d    == DOMAIN stream \cup {"tags"}
  IN  IF "encoder" \in DOMAIN tags
      THEN [k \in d |-> IF k = "tags" THEN tags ELSE stream[k]]
      ELSE [k \in d |->
              IF k = "tags"
              THEN [t \in DOMAIN tags \cup {"encoder"} |->
                      IF t = "encoder" THEN encoder ELSE tags[t]]
              ELSE stream[k]]

Max(a, b) == IF a >= b THEN a ELSE b

\* Mutant of Merge: the video descriptors, then the audio descriptors.
Merge_grouped(video, audio, i, max_len) == video \o audio

\* for i in range(max_len): merged.append(video[i]); merged.append(audio[i])
RECURSIVE Merge(_, _, _, _)
Merge(video, audio, i, max_len) ==
  IF i > max_len THEN <<>>
  ELSE (IF i <= Len(video) THEN <<video[i]>> ELSE <<>>)
       \o (IF i <= Len(audio) THEN <<audio[i]>> ELSE <<>>)
       \o Merge(video, audio, i + 1, max_len)

\* Mutant of normalize_streams: no audio placeholder is appended.
normalize_streams_no_audio_pad(profile) ==
  LET streams == Get(profile, "streams", <<>>)
      video0  == StreamsOfKind(streams, "video")
      audio   == StreamsOfKind(streams, "audio")
      video   == IF video0 = <<>> THEN <<PlaceholderVideo>> ELSE video0
  IN  [k \in DOMAIN profile \cup {"streams"} |->
         IF k = "streams"
         THEN Merge(video, audio, 1, Max(Len(video), Len(audio)))
         ELSE profile[k]]

normalize_streams(profile) ==
  LET streams == Get(profile, "streams", <<>>)
      video0  == StreamsOfKind(streams, "video")
      audio0  == StreamsOfKind(streams, "audio")
      encoder == Get(Get(Get(profile, "format", EmptyDict), "tags", EmptyDict),
                     "encoder", "")
      video1  == IF video0 # <<>> /\ encoder # ""
                 THEN <<WithEncoder(video0[1], encoder)>> \o Tail(video0)
                 ELSE video0
      video   == IF video1 = <<>> THEN <<PlaceholderVideo>> ELSE video1
      audio   == IF audio0 = <<>> THEN <<PlaceholderAudio>> ELSE audio0
  IN  [k \in DOMAIN profile \cup {"streams"} |->
         IF k = "streams"
         THEN Merge(video, audio, 1, Max(Len(video), Len(audio)))
         ELSE profile[k]]

\* no profile (yet)
NoProfile == [streams |-> <<>>, none |-> TRUE]

\* One run of the ffprobe process: it either prints a profile or the call
\* raises (spawn error, timeout, unparsable output).
ProbeRuns ==
  [ok : {TRUE}, raw : RawProfiles]
    \cup {[ok |-> FALSE, raw |-> [streams |-> <<>>, format |-> EmptyDict]]}
ProbeOk == {r \in ProbeRuns : r.ok}

\* ffprobe(data): the normalised profile; defined only for a run that succeeds
ffprobe(run) == normalize_streams(run.raw)


\* ------------------------------------------------------------------- items
InitPayloads == {<<1>>, <<2, 3>>}
SegPayloads == {<<8, 9>>}

\* InitSectionData / SegmentData: the payload and the chunk's
\* custom_parser_values.get('split', False)
InitItems == [type : {"init"}, payload : InitPayloads, split : BOOLEAN]
SegItems == [type : {"seg"}, payload : SegPayloads, split : BOOLEAN]
Items == InitItems \cup SegItems

\* Optional[InitSectionData] = None
None == [type |-> "none", payload |-> <<>>, split |-> FALSE]

\* attr.evolve(item, offset=offset)
evolve(item, offset) ==
  [type |-> item.type, payload |-> item.payload, split |-> item.split,
   offset |-> offset]

\* ------------------------------------------------------------------- paths
EmptyPath == [stem |-> 0, suffix |-> ""]
\* the suffixes of the paths the path provider returns
Suffixes == {"flv"}
\* str(PurePath(path).with_suffix('.m4s'))
with_suffix(p, suffix) == [stem |-> p.stem, suffix |-> suffix]

\* self._file = None
NoFile == 0

\* ------------------------------------------------------------------- state
VARIABLES
  path,            \* self._path
  file,            \* self._file: an index into files, or NoFile
  filesize,        \* self._filesize
  last_init_item,  \* closure variable of subscribe
  disposed,        \* closure variable of subscribe
  files,           \* every file object open() has returned: path, bytes, closed
  events,          \* what the subjects _file_opened and _file_closed emitted
  emitted,         \* what the session's observer received
  phase,           \* the subscription: unsubscribed, active, completed, errored, cancelled
  outcome,         \* how the last call of a callback that is recorded ended
  warnings,        \* the warnings the last _must_split_file call logged
  lastItem,        \* the item of the last on_next call
  nItems,          \* on_next calls so far
  nSessions,       \* subscriptions so far
  pc,              \* ConcSpec: the statement the running on_next call is at
  split_file       \* ConcSpec: the local split_file of the running on_next call

\* normalize_streams, run on its own
VARIABLES
  raw,             \* the dict that json.loads returned, as it was passed in
  normalized       \* the dict that normalize_streams returned, NoProfile before

dumperVars ==
  <<path, file, filesize, last_init_item, disposed, files, events, emitted,
    phase, outcome, warnings, lastItem, nItems, nSessions, pc, split_file>>
normVars == <<raw, normalized>>

\* ffprobe and ffprobe_on, run on their own
VARIABLES
  mode,            \* "none", "sync" (ffprobe called directly), "async" (the
                   \* action of ffprobe_on is running), "async_done"
  fpc,             \* the statement ffprobe is at
  proc,            \* the child process: "none", "running", "zombie" (exited,
                   \* not waited for), "reaped"
  kill_called,     \* process.kill() was called
  stdout,          \* what communicate returned
  result,          \* the profile ffprobe returned, NoProfile before
  error,           \* the exception in flight or raised, "" if none
  delivered,       \* the calls made on the observer of ffprobe_on, in order
  calls            \* calls of ffprobe so far

probeVars ==
  <<mode, fpc, proc, kill_called, stdout, result, error, delivered, calls>>

\* Analyser, run on its own
VARIABLES
  video_width,       \* Analyser._video_width
  video_height,      \* Analyser._video_height
  audio_sample_rate, \* Analyser._audio_sample_rate
  audio_channels,    \* Analyser._audio_channels
  a_phase,           \* the session of _analyse: "unsubscribed", "active",
                     \* "completed", "errored", "cancelled"
  a_event,           \* the last step: "none", "begin", "item", "profile", "end"
  a_last,            \* the profile of the last _on_profile_updated call
  nProfiles,         \* _on_profile_updated calls so far
  nASessions         \* subscriptions to _analyse so far

analyserVars ==
  <<video_width, video_height, audio_sample_rate, audio_channels, a_phase,
    a_event, a_last, nProfiles, nASessions>>

sideVars == <<normVars, probeVars, analyserVars>>
vars == <<dumperVars, sideVars>>

\* The fields the callbacks read and write, as one record; exc is the
\* exception in flight, if any.
Cur ==
  [path |-> path, file |-> file, filesize |-> filesize,
   last_init_item |-> last_init_item, disposed |-> disposed, files |-> files,
   events |-> events, emitted |-> emitted, phase |-> phase,
   outcome |-> outcome, warnings |-> warnings, exc |-> FALSE]

Install(s) ==
  /\ path' = s.path
  /\ file' = s.file
  /\ filesize' = s.filesize
  /\ last_init_item' = s.last_init_item
  /\ disposed' = s.disposed
  /\ files' = s.files
  /\ events' = s.events
  /\ emitted' = s.emitted
  /\ phase' = s.phase
  /\ outcome' = s.outcome
  /\ warnings' = s.warnings

raise(s) == [s EXCEPT !.exc = TRUE]

\* ------------------------------------------------- SegmentDumper's methods
\* Mutant of reset: the size of the file before is carried into the next.
reset_keeps_filesize(s) == [s EXCEPT !.path = EmptyPath, !.file = NoFile]

\* def _reset(self)
reset(s) == [s EXCEPT !.path = EmptyPath, !.file = NoFile, !.filesize = 0]

\* One call of the path provider followed by open(path, 'wb'): what the
\* provider returns (path, timestamp) and whether either call raises.
ProviderResults(n) ==
  [result : {"ok", "provider_raises", "open_raises"},
   path : [stem : {n}, suffix : Suffixes], timestamp : {n}]

\* def _open_file(self)
open_file(s, prov) ==
  IF prov.result = "provider_raises" THEN raise(s)
  ELSE LET p == with_suffix(prov.path, "m4s")
       IN  IF prov.result = "open_raises" THEN raise([s EXCEPT !.path = p])
           ELSE [s EXCEPT
                   !.path = p,
                   !.files = Append(@, [path |-> p, data |-> <<>>, closed |-> FALSE,
                                        init |-> s.last_init_item]),
                   !.file = Len(s.files) + 1,
                   !.events = Append(@, [type |-> "opened", path |-> p,
                                         timestamp |-> prov.timestamp])]

\* Mutant of close_file: fileClosed is emitted whether or not a file is open.
close_file_unguarded(s) ==
  [s EXCEPT
     !.files = IF s.file # NoFile /\ ~s.files[s.file].closed
               THEN [@ EXCEPT ![s.file].closed = TRUE] ELSE @,
     !.events = Append(@, [type |-> "closed", path |-> s.path, timestamp |-> 0])]

\* def _close_file(self)
close_file(s) ==
  IF s.file # NoFile /\ ~s.files[s.file].closed
  THEN [s EXCEPT
          !.files[s.file].closed = TRUE,
          !.events = Append(@, [type |-> "closed", path |-> s.path,
                                timestamp |-> 0])]
  ELSE s

\* def _write_data(self, item) -> (offset, size).  The write either appends
\* the whole payload or raises and appends nothing; tell() and write() raise
\* on a closed file, and the assert raises when there is no file.
write_data(s, item, ok) ==
  IF s.file = NoFile \/ s.files[s.file].closed \/ ~ok
  THEN [st |-> raise(s), offset |-> 0, size |-> 0]
  ELSE [st |-> [s EXCEPT !.files[s.file].data = @ \o item.payload],
        offset |-> Len(s.files[s.file].data),
        size |-> Len(item.payload)]

\* def _update_filesize(self, size)
update_filesize(s, size) == [s EXCEPT !.filesize = @ + size]

\* Mutant of is_redundant: the items are compared, not their payloads.
is_redundant_by_item(prev_init_item, curr_init_item) ==
  /\ prev_init_item # None
  /\ curr_init_item = prev_init_item

\* def _is_redundant(self, prev_init_item, curr_init_item)
is_redundant(prev_init_item, curr_init_item) ==
  /\ prev_init_item # None
  /\ curr_init_item.payload = prev_init_item.payload

\* next((s for s in profile['streams'] if s.get('codec_type') == kind), None)
FirstOfKind(profile, kind) == StreamsOfKind(profile.streams, kind)[1]

AudioChanged(prev_audio, curr_audio) ==
  \/ prev_audio.codec_name # curr_audio.codec_name
  \/ prev_audio.channels # curr_audio.channels
  \/ prev_audio.sample_rate # curr_audio.sample_rate
  \/ Get(prev_audio, "bit_rate", "None") # Get(curr_audio, "bit_rate", "None")

VideoChanged(prev_video, curr_video) ==
  \/ prev_video.codec_name # curr_video.codec_name
  \/ prev_video.width # curr_video.width
  \/ prev_video.height # curr_video.height
  \/ prev_video.coded_width # curr_video.coded_width
  \/ prev_video.coded_height # curr_video.coded_height

\* The warnings _must_split_file logs for two profiles.
Mismatches(prev_profile, curr_profile) ==
  (IF AudioChanged(FirstOfKind(prev_profile, "audio"),
                   FirstOfKind(curr_profile, "audio"))
   THEN {"Audio parameters changed"} ELSE {})
  \cup
  (IF VideoChanged(FirstOfKind(prev_profile, "video"),
                   FirstOfKind(curr_profile, "video"))
   THEN {"Video parameters changed"} ELSE {})

\* Mutant of must_split_file: the file is split only when the comparison
\* finds a change.
must_split_file_on_change(prev_init_item, curr_init_item, probes) ==
  IF prev_init_item = None \/ prev_init_item.payload = <<>>
  THEN IF ~probes.curr.ok
       THEN [raised |-> TRUE, value |-> FALSE, warnings |-> {}]
       ELSE [raised |-> FALSE, value |-> TRUE, warnings |-> {}]
  ELSE IF ~probes.prev.ok \/ ~probes.curr.ok
       THEN [raised |-> TRUE, value |-> FALSE, warnings |-> {}]
       ELSE LET w == Mismatches(ffprobe(probes.prev), ffprobe(probes.curr))
            IN  [raised |-> FALSE, value |-> w # {}, warnings |-> w]

\* def _must_split_file(self, prev_init_item, curr_init_item): probes.prev
\* and probes.curr are the ffprobe runs of the two payloads.  The result is
\* [raised, value, warnings].
must_split_file(prev_init_item, curr_init_item, probes) ==
  IF prev_init_item = None \/ prev_init_item.payload = <<>>
  THEN IF ~probes.curr.ok
       THEN [raised |-> TRUE, value |-> FALSE, warnings |-> {}]
       ELSE [raised |-> FALSE, value |-> TRUE, warnings |-> {}]
  ELSE IF ~probes.prev.ok \/ ~probes.curr.ok
       THEN [raised |-> TRUE, value |-> FALSE, warnings |-> {}]
       ELSE [raised |-> FALSE, value |-> TRUE,
             warnings |-> Mismatches(ffprobe(probes.prev), ffprobe(probes.curr))]

\* def _need_split_file(self, item)
need_split_file(item) == item.split

\* --------------------------------------------- the callbacks of subscribe
\* Mutant of dispose: the file is closed and the fields are not reset.
dispose_without_reset(s) ==
  close_file([s EXCEPT !.disposed = TRUE, !.last_init_item = None])

\* def dispose(): the action of the Disposable that subscribe returns
dispose(s) ==
  reset(close_file([s EXCEPT !.disposed = TRUE, !.last_init_item = None]))

\* observer.on_next(x).  The observer handed to subscribe is the downstream
\* subscriber's auto-detaching observer: it drops what arrives after it
\* stopped.  The file the item was written to is recorded with it.
observer_on_next(s, x) ==
  IF s.phase = "active"
  THEN [s EXCEPT !.emitted = Append(@, [kind |-> "next", item |-> x, fileno |-> s.file])]
  ELSE s

\* observer.on_error(e) and observer.on_completed(): the first terminal
\* notification stops the observer, which then disposes the
\* CompositeDisposable that subscribe returned: the upstream subscription
\* (no callback is called afterwards) and Disposable(dispose).
observer_terminal(s, kind) ==
  IF s.phase = "active"
  THEN dispose([s EXCEPT
                  !.emitted = Append(@, [kind |-> kind, item |-> evolve(None, 0),
                                         fileno |-> NoFile]),
                  !.phase = IF kind = "error" THEN "errored" ELSE "completed"])
  ELSE s

\* on_next, from its first line to "split_file = self._need_split_file(item)".
\* The result is the state, the local split_file, and how the block ended:
\* "return" (redundant item), "raise" (a probe raised) or "go".
decide(s, item, probes) ==
  IF item.type = "init"
  THEN IF is_redundant(s.last_init_item, item)
       THEN [st |-> s, split_file |-> FALSE, end |-> "return"]
       ELSE LET m == must_split_file(s.last_init_item, item, probes)
            IN  IF m.raised
                THEN [st |-> raise(s), split_file |-> FALSE, end |-> "raise"]
                ELSE [st |-> [s EXCEPT !.last_init_item = item,
                                       !.warnings = m.warnings],
                      split_file |-> IF ~m.value THEN need_split_file(item) ELSE TRUE,
                      end |-> "go"]
  ELSE [st |-> s, split_file |-> need_split_file(item), end |-> "go"]

\* Mutant of rotate: the file before is left open.
rotate_without_close(s, prov) == open_file(reset(s), prov)

\* on_next, "if split_file:": close, reset, open
rotate(s, prov) == open_file(reset(close_file(s)), prov)

\* Mutant of write_init: the retained init section is not written.
write_init_skipped(s, item, split, ok) == s

\* Mutant of write_init: the retained init section is written after every
\* split, also when the item is the init section itself.
write_init_always(s, item, split, ok) ==
  IF split
  THEN IF s.last_init_item = None THEN raise(s)
       ELSE LET w == write_data(s, s.last_init_item, ok)
            IN  IF w.st.exc THEN w.st
                ELSE observer_on_next(update_filesize(w.st, w.size),
                                      evolve(s.last_init_item, w.offset))
  ELSE s

\* on_next, "if split_file and not isinstance(item, InitSectionData):"
write_init(s, item, split, ok) ==
  IF split /\ item.type # "init"
  THEN IF s.last_init_item = None THEN raise(s)
       ELSE LET w == write_data(s, s.last_init_item, ok)
            IN  IF w.st.exc THEN w.st
                ELSE observer_on_next(update_filesize(w.st, w.size),
                                      evolve(s.last_init_item, w.offset))
  ELSE s

\* on_next, "offset, size = self._write_data(item)" and the two lines after
write_item(s, item, ok) ==
  LET w == write_data(s, item, ok)
  IN  IF w.st.exc THEN w.st
      ELSE observer_on_next(update_filesize(w.st, w.size), evolve(item, w.offset))

\* Mutant of on_write_error: the exception is logged and not propagated.
on_write_error_swallowed(s) == reset(close_file([s EXCEPT !.exc = FALSE]))

\* on_next, "except Exception as e:"
on_write_error(s) ==
  observer_terminal(reset(close_file([s EXCEPT !.exc = FALSE])), "error")

\* How a call ended, for the record.
ended(s, how) == [s EXCEPT !.outcome = how, !.exc = FALSE]

\* def on_next(item), whole.  probes are the ffprobe runs of
\* _must_split_file, prov the path provider's result and open()'s outcome,
\* writes.first and writes.second whether the first and the second write of
\* the call succeed.
on_next(s, item, probes, prov, writes) ==
  LET d == decide([s EXCEPT !.warnings = {}], item, probes)
  IN  IF d.end = "return" THEN ended(d.st, "dropped")
      ELSE IF d.end = "raise" THEN ended(d.st, "probe_raised")
      ELSE LET s1 == IF d.split_file THEN rotate(d.st, prov) ELSE d.st
           IN  IF s1.exc THEN ended(s1, "open_raised")
               ELSE LET s2 == write_init(s1, item, d.split_file, writes.first)
                        s3 == IF s2.exc THEN s2
                              ELSE write_item(s2, item,
                                     IF d.split_file /\ item.type # "init"
                                     THEN writes.second ELSE writes.first)
                    IN  IF s3.exc THEN ended(on_write_error(s3), "write_failed")
                        ELSE ended(s3, "written")

\* Mutant of on_completed: the state is reset and the file is not closed.
on_completed_without_close(s) == observer_terminal(reset(s), "completed")

\* def on_completed()
on_completed(s) == observer_terminal(reset(close_file(s)), "completed")

\* def on_error(e)
on_error(s) == observer_terminal(reset(close_file(s)), "error")

\* The consumer disposes the subscription: its observer stops, the upstream
\* subscription is disposed and then dispose() runs.
cancel(s) == dispose([s EXCEPT !.phase = "cancelled"])

\* ------------------------------------------------------------- environment
FailedRun == [ok |-> FALSE, raw |-> [streams |-> <<>>, format |-> EmptyDict]]

\* The ffprobe runs an on_next call can make: none for a segment or a
\* redundant item, one (curr) without a previous item, two otherwise.
ProbeChoices(prev, item) ==
  IF item.type # "init" \/ is_redundant(prev, item)
  THEN {[prev |-> FailedRun, curr |-> FailedRun]}
  ELSE IF prev = None \/ prev.payload = <<>>
       THEN [prev : {FailedRun}, curr : ProbeRuns]
       ELSE [prev : ProbeRuns, curr : ProbeRuns]

\* The path provider and open() are called only when the file is split.
ProviderChoices(item, n) ==
  IF item.type = "init" \/ item.split
  THEN ProviderResults(n)
  ELSE {[result |-> "ok", path |-> [stem |-> n, suffix |-> "flv"], timestamp |-> n]}

\* A call writes once, twice when a segment splits the file.
WriteChoices(item) ==
  IF item.type = "seg" /\ item.split
  THEN [first : BOOLEAN, second : BOOLEAN]
  ELSE [first : BOOLEAN, second : {TRUE}]

Ended == {"unsubscribed", "completed", "errored", "cancelled"}

\* ----------------------------------------------------------------- actions
\* SegmentDumper.__init__, before any subscription
DumperInit ==
  /\ path = EmptyPath
  /\ file = NoFile
  /\ filesize = 0
  /\ last_init_item = None
  /\ disposed = FALSE
  /\ files = <<>>
  /\ events = <<>>
  /\ emitted = <<>>
  /\ phase = "unsubscribed"
  /\ outcome = "none"
  /\ warnings = {}
  /\ lastItem = None
  /\ nItems = 0
  /\ nSessions = 0
  /\ pc = "idle"
  /\ split_file = FALSE

\* the other components at rest
NormIdle == raw = NoProfile /\ normalized = NoProfile

ProbeIdle ==
  /\ mode = "none"
  /\ fpc = "idle"
  /\ proc = "none"
  /\ kill_called = FALSE
  /\ stdout = <<>>
  /\ result = NoProfile
  /\ error = ""
  /\ delivered = <<>>
  /\ calls = 0

\* An attribute holding Optional[str] or Optional[int]: a value, None, or
\* not assigned yet.
Opt(v) == [state |-> "value", v |-> v]
NoneStr == [state |-> "none", v |-> ""]
NoneInt == [state |-> "none", v |-> 0]
UnsetStr == [state |-> "unset", v |-> ""]
UnsetInt == [state |-> "unset", v |-> 0]

\* Analyser.__init__: self._reset(); the audio attributes are not assigned
AnalyserIdle ==
  /\ video_width = 0
  /\ video_height = 0
  /\ audio_sample_rate = UnsetStr
  /\ audio_channels = UnsetInt
  /\ a_phase = "unsubscribed"
  /\ a_event = "none"
  /\ a_last = NoProfile
  /\ nProfiles = 0
  /\ nASessions = 0

Init == DumperInit /\ NormIdle /\ ProbeIdle /\ AnalyserIdle

\* def subscribe(observer, scheduler): a new session, once the one before
\* it has ended and no call of it is still running
subscribe(s) ==
  [s EXCEPT !.disposed = FALSE, !.last_init_item = None, !.emitted = <<>>,
            !.phase = "active", !.outcome = "none", !.warnings = {}]

Subscribe ==
  /\ phase \in Ended
  /\ pc = "idle"
  /\ nSessions < MaxSessions
  /\ Install(subscribe(Cur))
  /\ nSessions' = nSessions + 1
  /\ lastItem' = None
  /\ UNCHANGED <<nItems, pc, split_file>>
  /\ UNCHANGED sideVars

\* The upstream source delivers an item.
OnNext ==
  /\ phase = "active"
  /\ pc = "idle"
  /\ nItems < MaxItems
  /\ \E item \in Items :
       \E probes \in ProbeChoices(last_init_item, item) :
         \E prov \in ProviderChoices(item, nItems + 1) :
           \E writes \in WriteChoices(item) :
             /\ Install(on_next(Cur, item, probes, prov, writes))
             /\ lastItem' = item
  /\ nItems' = nItems + 1
  /\ UNCHANGED <<nSessions, pc, split_file>>
  /\ UNCHANGED sideVars

\* The upstream source completes.
OnCompleted ==
  /\ phase = "active"
  /\ pc = "idle"
  /\ Install(on_completed(Cur))
  /\ UNCHANGED <<lastItem, nItems, nSessions, pc, split_file>>
  /\ UNCHANGED sideVars

\* The upstream source fails.
OnError ==
  /\ phase = "active"
  /\ pc = "idle"
  /\ Install(on_error(Cur))
  /\ UNCHANGED <<lastItem, nItems, nSessions, pc, split_file>>
  /\ UNCHANGED sideVars

\* The consumer cancels the subscription.
Dispose ==
  /\ phase = "active"
  /\ Install(cancel(Cur))
  /\ UNCHANGED <<lastItem, nItems, nSessions, pc, split_file>>
  /\ UNCHANGED sideVars

\* The consumer disposes the subscription of a session that is over (a
\* second cancel, or a cancel after completion or error).  The
\* CompositeDisposable runs dispose() at most once; the body of dispose run
\* again is the most such a call does.
DisposeAgain ==
  /\ phase \in {"completed", "errored", "cancelled"}
  /\ pc = "idle"
  /\ Install(ended(dispose(Cur), "disposed_again"))
  /\ UNCHANGED <<lastItem, nItems, nSessions, pc, split_file>>
  /\ UNCHANGED sideVars

Next ==
  \/ Subscribe
  \/ OnNext
  \/ OnCompleted
  \/ OnError
  \/ Dispose
  \/ DisposeAgain

Spec == Init /\ [][Next]_vars

\* ------------------------------------------- on_next, statement by statement
\* on_next runs on the thread that drives the source and dispose on the
\* consumer's; no lock is taken by either.  The running call's item is
\* lastItem, its local split_file is split_file, and pc is the statement it
\* is at.  A call that has started runs to its end whatever the phase.
CBegin ==
  /\ phase = "active"
  /\ pc = "idle"
  /\ nItems < MaxItems
  /\ \E item \in Items :
       \E probes \in ProbeChoices(last_init_item, item) :
         LET d == decide([Cur EXCEPT !.warnings = {}], item, probes)
         IN  /\ lastItem' = item
             /\ split_file' = d.split_file
             /\ IF d.end = "return"
                THEN Install(ended(d.st, "dropped")) /\ pc' = "idle"
                ELSE IF d.end = "raise"
                THEN Install(ended(d.st, "probe_raised")) /\ pc' = "idle"
                ELSE /\ Install(ended(d.st, "running"))
                     /\ pc' = IF d.split_file THEN "close_file" ELSE "write_item"
  /\ nItems' = nItems + 1
  /\ UNCHANGED nSessions
  /\ UNCHANGED sideVars

\* self._close_file()
CCloseFile ==
  /\ pc = "close_file"
  /\ Install(close_file(Cur))
  /\ pc' = "reset"
  /\ UNCHANGED <<lastItem, nItems, nSessions, split_file>>
  /\ UNCHANGED sideVars

\* self._reset()
CReset ==
  /\ pc = "reset"
  /\ Install(reset(Cur))
  /\ pc' = "open_file"
  /\ UNCHANGED <<lastItem, nItems, nSessions, split_file>>
  /\ UNCHANGED sideVars

\* self._open_file()
COpenFile ==
  /\ pc = "open_file"
  /\ \E prov \in ProviderResults(nItems) :
       LET s == open_file(Cur, prov)
       IN  IF s.exc
           THEN Install(ended(s, "open_raised")) /\ pc' = "idle"
           ELSE Install(s) /\ pc' = "write_init"
  /\ UNCHANGED <<lastItem, nItems, nSessions, split_file>>
  /\ UNCHANGED sideVars

\* the write of the retained init section
CWriteInit ==
  /\ pc = "write_init"
  /\ \E ok \in BOOLEAN :
       LET s == write_init(Cur, lastItem, split_file, ok)
       IN  /\ Install([s EXCEPT !.exc = FALSE])
           /\ pc' = IF s.exc THEN "except" ELSE "write_item"
  /\ UNCHANGED <<lastItem, nItems, nSessions, split_file>>
  /\ UNCHANGED sideVars

\* the write of the item
CWriteItem ==
  /\ pc = "write_item"
  /\ \E ok \in BOOLEAN :
       LET s == write_item(Cur, lastItem, ok)
       IN  IF s.exc
           THEN Install([s EXCEPT !.exc = FALSE]) /\ pc' = "except"
           ELSE Install(ended(s, "written")) /\ pc' = "idle"
  /\ UNCHANGED <<lastItem, nItems, nSessions, split_file>>
  /\ UNCHANGED sideVars

\* the except block
CExcept ==
  /\ pc = "except"
  /\ Install(ended(on_write_error(Cur), "write_failed"))
  /\ pc' = "idle"
  /\ UNCHANGED <<lastItem, nItems, nSessions, split_file>>
  /\ UNCHANGED sideVars

ConcNext ==
  \/ Subscribe
  \/ CBegin
  \/ CCloseFile
  \/ CReset
  \/ COpenFile
  \/ CWriteInit
  \/ CWriteItem
  \/ CExcept
  \/ Dispose

ConcSpec == Init /\ [][ConcNext]_vars

\* ------------------------------------------------ normalize_streams alone
\* A stream that is neither video nor audio.
DataStream == [codec_type |-> "data", codec_name |-> "bin_data"]

SeqsUpTo(S, n) == UNION {[1..k -> S] : k \in 0..n}

\* What json.loads(stdout) can be: up to MaxStreams streams in any order,
\* with or without format.tags.encoder; or a dict with no 'streams' key.
NormInputs ==
  [streams : SeqsUpTo({VideoA, VideoB, AudioA, AudioB, DataStream}, MaxStreams),
   format : {EmptyDict, [tags |-> [encoder |-> "Lavf"]]}]
    \cup {[format |-> EmptyDict]}

NormInit ==
  /\ DumperInit
  /\ ProbeIdle
  /\ AnalyserIdle
  /\ raw \in NormInputs
  /\ normalized = NoProfile

\* profile = normalize_streams(profile)
Normalize ==
  /\ normalized = NoProfile
  /\ normalized' = normalize_streams(raw)
  /\ UNCHANGED <<raw, dumperVars, probeVars, analyserVars>>

NormNext == Normalize

NormSpec == NormInit /\ [][NormNext]_vars

\* ------------------------------------------------------ ffprobe, stepwise
\* What the process can have printed when communicate returns: the JSON
\* text of a profile, of a value that is not an object, or no JSON at all.
Garbage == [text |-> "garbage"]
NotADict == [text |-> "json", value |-> <<>>]
Stdouts ==
  [text : {"json"}, value : NormInputs] \cup {NotADict, Garbage}

\* json.loads(stdout) raises JSONDecodeError
json_fails(out) == out.text # "json"

\* json.loads(stdout)
json_loads(out) == out.value

\* normalize_streams(profile) raises: profile.get on a value with no get
is_dict(v) == "format" \in DOMAIN v \/ "streams" \in DOMAIN v

\* Mutant of kill: the process is left alone.
kill_noop(p) == p

\* process.kill(): SIGKILL to a process that has not exited yet
kill(p) == IF p = "running" THEN "zombie" ELSE p

\* process.wait(): returns once the process has exited
wait_returns(p) == p # "running"
wait(p) == IF p = "none" THEN "none" ELSE "reaped"

ProbeInit ==
  /\ DumperInit
  /\ NormIdle
  /\ ProbeIdle
  /\ AnalyserIdle

\* ffprobe(data), called by a caller of its own
FfprobeCall ==
  /\ fpc = "idle"
  /\ mode' = "sync"
  /\ fpc' = "popen"
  /\ calls' = calls + 1
  /\ UNCHANGED <<proc, kill_called, stdout, result, error, delivered>>
  /\ UNCHANGED <<dumperVars, normVars, analyserVars>>

\* def action(scheduler, state): run by the scheduler; try: ffprobe(data)
ActionRun ==
  /\ fpc = "idle"
  /\ mode' = "async"
  /\ fpc' = "popen"
  /\ calls' = calls + 1
  /\ UNCHANGED <<proc, kill_called, stdout, result, error, delivered>>
  /\ UNCHANGED <<dumperVars, normVars, analyserVars>>

\* with Popen(args, ...) as process: the spawn succeeds or raises OSError
PopenStep ==
  /\ fpc = "popen"
  /\ \/ /\ proc' = "running"
        /\ fpc' = "communicate"
        /\ error' = error
     \/ /\ proc' = "none"
        /\ fpc' = "raised"
        /\ error' = "OSError"
  /\ UNCHANGED <<mode, kill_called, stdout, result, delivered, calls>>
  /\ UNCHANGED <<dumperVars, normVars, analyserVars>>

\* stdout, _stderr = process.communicate(data, timeout=10): returns the
\* output once the process has exited and been waited for; raises
\* TimeoutExpired with the process running; or raises another error, the
\* process running or exited
Communicate ==
  /\ fpc = "communicate"
  /\ \/ \E out \in Stdouts :
          /\ stdout' = out
          /\ proc' = "reaped"
          /\ fpc' = "loads"
          /\ error' = error
     \/ /\ proc' = "running"
        /\ error' = "TimeoutExpired"
        /\ fpc' = "except_kill"
        /\ stdout' = stdout
     \/ \E p \in {"running", "zombie"} :
          /\ proc' = p
          /\ error' = "OSError"
          /\ fpc' = "except_kill"
          /\ stdout' = stdout
  /\ UNCHANGED <<mode, kill_called, result, delivered, calls>>
  /\ UNCHANGED <<dumperVars, normVars, analyserVars>>

\* profile = json.loads(stdout)
JsonLoads ==
  /\ fpc = "loads"
  /\ IF json_fails(stdout)
     THEN error' = "JSONDecodeError" /\ fpc' = "except_kill"
     ELSE error' = error /\ fpc' = "normalize"
  /\ UNCHANGED <<mode, proc, kill_called, stdout, result, delivered, calls>>
  /\ UNCHANGED <<dumperVars, normVars, analyserVars>>

\* except BaseException: process.kill()
ExceptKill ==
  /\ fpc = "except_kill"
  /\ proc' = kill(proc)
  /\ kill_called' = TRUE
  /\ fpc' = "except_wait"
  /\ UNCHANGED <<mode, stdout, result, error, delivered, calls>>
  /\ UNCHANGED <<dumperVars, normVars, analyserVars>>

\* except BaseException: process.wait(); raise
ExceptWait ==
  /\ fpc = "except_wait"
  /\ wait_returns(proc)
  /\ proc' = wait(proc)
  /\ fpc' = "with_exit"
  /\ UNCHANGED <<mode, kill_called, stdout, result, error, delivered, calls>>
  /\ UNCHANGED <<dumperVars, normVars, analyserVars>>

\* else: profile = normalize_streams(profile); return profile
NormalizeResult ==
  /\ fpc = "normalize"
  /\ IF is_dict(json_loads(stdout))
     THEN result' = normalize_streams(json_loads(stdout)) /\ error' = error
     ELSE result' = result /\ error' = "AttributeError"
  /\ fpc' = "with_exit"
  /\ UNCHANGED <<mode, proc, kill_called, stdout, delivered, calls>>
  /\ UNCHANGED <<dumperVars, normVars, analyserVars>>

\* Popen.__exit__: the pipes are closed and the process is waited for;
\* then the value is returned or the exception goes on to the caller
WithExit ==
  /\ fpc = "with_exit"
  /\ wait_returns(proc)
  /\ proc' = wait(proc)
  /\ fpc' = IF error = "" THEN "returned" ELSE "raised"
  /\ UNCHANGED <<mode, kill_called, stdout, result, error, delivered, calls>>
  /\ UNCHANGED <<dumperVars, normVars, analyserVars>>

\* Mutant of notify: on_completed follows on_error as well.
notify_completes_always(err, profile) ==
  (IF err # ""
   THEN <<[kind |-> "error", value |-> err]>>
   ELSE <<[kind |-> "next", value |-> profile]>>)
    \o <<[kind |-> "completed", value |-> ""]>>

\* except Exception as e: observer.on_error(e)
\* else: observer.on_next(profile); observer.on_completed()
notify(err, profile) ==
  IF err # ""
  THEN <<[kind |-> "error", value |-> err]>>
  ELSE <<[kind |-> "next", value |-> profile],
         [kind |-> "completed", value |-> ""]>>

\* the rest of action, once ffprobe has returned or raised
ActionNotify ==
  /\ mode = "async"
  /\ fpc \in {"returned", "raised"}
  /\ delivered' = delivered \o notify(error, result)
  /\ mode' = "async_done"
  /\ UNCHANGED <<fpc, proc, kill_called, stdout, result, error, calls>>
  /\ UNCHANGED <<dumperVars, normVars, analyserVars>>

ProbeNext ==
  \/ FfprobeCall
  \/ ActionRun
  \/ PopenStep
  \/ Communicate
  \/ JsonLoads
  \/ ExceptKill
  \/ ExceptWait
  \/ NormalizeResult
  \/ WithExit
  \/ ActionNotify

ProbeSpec == ProbeInit /\ [][ProbeNext]_vars

\* ---------------------------------------------------------------- Analyser
\* The analyser's attributes as one record.
ACur ==
  [video_width |-> video_width, video_height |-> video_height,
   audio_sample_rate |-> audio_sample_rate, audio_channels |-> audio_channels]

AInstall(a) ==
  /\ video_width' = a.video_width
  /\ video_height' = a.video_height
  /\ audio_sample_rate' = a.audio_sample_rate
  /\ audio_channels' = a.audio_channels

\* def _reset(self)
analyser_reset(a) == [a EXCEPT !.video_width = 0, !.video_height = 0]

\* ap.get(key, None)
GetOpt(d, k) == IF k \in DOMAIN d THEN Opt(d[k]) ELSE NoneStr
GetOptInt(d, k) == IF k \in DOMAIN d THEN Opt(d[k]) ELSE NoneInt

\* def _on_profile_updated(self, profile)
on_profile_updated(a, profile) ==
  LET streams        == Get(profile, "streams", <<>>)
      video_profiles == StreamsOfKind(streams, "video")
      audio_profiles == StreamsOfKind(streams, "audio")
  IN  [video_width |->
         IF video_profiles # <<>> THEN Get(video_profiles[1], "width", 0) ELSE 0,
       video_height |->
         IF video_profiles # <<>> THEN Get(video_profiles[1], "height", 0) ELSE 0,
       audio_sample_rate |->
         IF audio_profiles # <<>>
         THEN GetOpt(audio_profiles[1], "sample_rate") ELSE NoneStr,
       audio_channels |->
         IF audio_profiles # <<>>
         THEN GetOptInt(audio_profiles[1], "channels") ELSE NoneInt]

\* The profiles the prober's stream carries: results of ffprobe, which are
\* normalized.
AnalyserProfiles == {ffprobe(r) : r \in ProbeOk}

AnalyserInit ==
  /\ DumperInit
  /\ NormIdle
  /\ ProbeIdle
  /\ AnalyserIdle

\* self._prober.profiles.subscribe(self._on_profile_updated): a profile
\* arrives, during a session or outside one
AProfile ==
  /\ nProfiles < MaxProfiles
  /\ \E p \in AnalyserProfiles :
       /\ AInstall(on_profile_updated(ACur, p))
       /\ a_last' = p
  /\ nProfiles' = nProfiles + 1
  /\ a_event' = "profile"
  /\ UNCHANGED <<a_phase, nASessions>>
  /\ UNCHANGED <<dumperVars, normVars, probeVars>>

\* def subscribe(observer, scheduler): self._reset(), then the source is
\* subscribed to
ASubscribe ==
  /\ a_phase # "active"
  /\ nASessions < MaxSessions
  /\ AInstall(analyser_reset(ACur))
  /\ a_phase' = "active"
  /\ a_event' = "begin"
  /\ nASessions' = nASessions + 1
  /\ UNCHANGED <<a_last, nProfiles>>
  /\ UNCHANGED <<dumperVars, normVars, probeVars>>

\* def on_next(item): observer.on_next(item)
AOnNext ==
  /\ a_phase = "active"
  /\ a_event' = "item"
  /\ UNCHANGED <<video_width, video_height, audio_sample_rate, audio_channels,
                 a_phase, a_last, nProfiles, nASessions>>
  /\ UNCHANGED <<dumperVars, normVars, probeVars>>

\* def dispose(): disposed = True; self._reset()
analyser_dispose(a) == analyser_reset(a)

\* observer.on_completed / observer.on_error, passed to source.subscribe:
\* the observer stops and disposes the subscription, which runs dispose()
AOnCompleted ==
  /\ a_phase = "active"
  /\ AInstall(analyser_dispose(ACur))
  /\ a_phase' = "completed"
  /\ a_event' = "end"
  /\ UNCHANGED <<a_last, nProfiles, nASessions>>
  /\ UNCHANGED <<dumperVars, normVars, probeVars>>

AOnError ==
  /\ a_phase = "active"
  /\ AInstall(analyser_dispose(ACur))
  /\ a_phase' = "errored"
  /\ a_event' = "end"
  /\ UNCHANGED <<a_last, nProfiles, nASessions>>
  /\ UNCHANGED <<dumperVars, normVars, probeVars>>

\* the consumer disposes the subscription
ADispose ==
  /\ a_phase = "active"
  /\ AInstall(analyser_dispose(ACur))
  /\ a_phase' = "cancelled"
  /\ a_event' = "end"
  /\ UNCHANGED <<a_last, nProfiles, nASessions>>
  /\ UNCHANGED <<dumperVars, normVars, probeVars>>

AnalyserNext ==
  \/ AProfile
  \/ ASubscribe
  \/ AOnNext
  \/ AOnCompleted
  \/ AOnError
  \/ ADispose

AnalyserSpec == AnalyserInit /\ [][AnalyserNext]_vars

\* ================================================================= claims
IsPrefix(a, b) == Len(a) <= Len(b) /\ SubSeq(b, 1, Len(a)) = a

RECURSIVE SumLen(_)
\* the bytes of a sequence of forwarded items
SumLen(es) ==
  IF es = <<>> THEN 0 ELSE Len(Head(es).item.payload) + SumLen(Tail(es))

\* the items forwarded among the first n notifications that went to file f
ForwardedTo(f, n) ==
  SelectSeq(SubSeq(emitted, 1, n), LAMBDA e : e.kind = "next" /\ e.fileno = f)

OpenFiles == {i \in 1..Len(files) : ~files[i].closed}

\* C1: every file that holds any bytes begins with the payload of the init
\* section that was retained when the file was opened, and nothing but an
\* init section is ever forwarded with offset 0.
C1_FileBeginsWithInit ==
  /\ \A i \in 1..Len(files) :
       files[i].data # <<>> =>
         /\ files[i].init # None
         /\ IsPrefix(files[i].init.payload, files[i].data)
  /\ \A k \in 1..Len(emitted) :
       (emitted[k].kind = "next" /\ emitted[k].item.offset = 0) =>
         emitted[k].item.type = "init"

\* a file opened by a flagged segment holds the init section and the segment
C1_Witness ==
  /\ phase = "active" /\ outcome = "written"
  /\ lastItem.type = "seg" /\ lastItem.split
  /\ file # NoFile
  /\ files[file].data = files[file].init.payload \o lastItem.payload

\* C2: the offset of every forwarded item is the number of bytes forwarded
\* to the same file before it; filesize is the number of bytes in the open
\* file, which is the sum of the writes forwarded for it, and is 0 when no
\* file is open.
C2_OffsetsAndFilesize ==
  /\ \A k \in 1..Len(emitted) :
       emitted[k].kind = "next" =>
         emitted[k].item.offset = SumLen(ForwardedTo(emitted[k].fileno, k - 1))
  /\ file # NoFile =>
       /\ filesize = Len(files[file].data)
       /\ filesize = SumLen(ForwardedTo(file, Len(emitted)))
  /\ file = NoFile => filesize = 0

\* a second file of the session is open and holds more than its init section
C2_Witness ==
  /\ phase = "active" /\ outcome = "written"
  /\ Len(emitted) >= 4
  /\ file # NoFile
  /\ emitted[1].fileno # file
  /\ filesize > Len(files[file].init.payload)

\* C3: at most one file is open; fileOpened and fileClosed alternate,
\* starting with fileOpened, and each fileClosed carries the path of the
\* fileOpened before it.
C3_OneOpenFile ==
  /\ Cardinality(OpenFiles) <= 1
  /\ \A k \in 1..Len(events) :
       /\ events[k].type = (IF k % 2 = 1 THEN "opened" ELSE "closed")
       /\ k % 2 = 0 => events[k].path = events[k - 1].path

\* a file was opened, closed, and another opened
C3_Witness == Len(events) >= 3 /\ file # NoFile

\* the state the rotator's accessors and subjects show
Visible == <<path, file, filesize, last_init_item, files, events, emitted, phase>>

\* C4: an on_next call whose item is an init section with the payload of
\* the retained one changes nothing: no write, no forward, no event, no new
\* retained item, whatever its split flag.
C4_RedundantDropped ==
  [][(/\ nItems' = nItems + 1
      /\ lastItem'.type = "init"
      /\ last_init_item # None
      /\ lastItem'.payload = last_init_item.payload)
     => UNCHANGED Visible]_vars

\* a flagged redundant init section was dropped while a file was open
C4_Witness ==
  /\ phase = "active" /\ outcome = "dropped"
  /\ lastItem.type = "init" /\ lastItem.split
  /\ file # NoFile

\* C5: once the session has completed, failed or been cancelled, no file is
\* open and every fileOpened has its fileClosed.
C5_ClosedAfterTerminal ==
  phase \in {"completed", "errored", "cancelled"} =>
    /\ file = NoFile
    /\ OpenFiles = {}
    /\ Len(events) = 2 * Len(files)
    /\ \A i \in 1..Len(files) :
         /\ events[2 * i - 1] = [type |-> "opened", path |-> files[i].path,
                                 timestamp |-> events[2 * i - 1].timestamp]
         /\ events[2 * i].type = "closed"
         /\ events[2 * i].path = files[i].path

\* a session that opened a file has completed
C5_Witness == phase = "completed" /\ Len(files) >= 1 /\ emitted # <<>>

\* C6: once cancel has returned, no file is open and the cumulative size is
\* 0, also when an on_next call was running when cancel was called.
C6_CancelSerialized ==
  phase = "cancelled" =>
    /\ file = NoFile
    /\ filesize = 0
    /\ OpenFiles = {}

Terminals == {k \in 1..Len(emitted) : emitted[k].kind \in {"error", "completed"}}

C8_NoOpenFileAfterFailure ==
  (outcome \in {"probe_raised", "open_raised", "write_failed"} \/ phase = "errored")
    => (file = NoFile /\ OpenFiles = {})

\* the events of kind fileOpened
Opened(es) == SelectSeq(es, LAMBDA e : e.type = "opened")

\* C9, as claimed, for the on_next calls in which nothing raises: the call
\* opens a new file exactly when its item is a non-redundant init section
\* or its chunk carries the split flag, and a segment without the flag
\* causes no event.
C9_RotationAsClaimed ==
  [][(nItems' = nItems + 1 /\ outcome' \in {"written", "dropped"}) =>
       /\ (Opened(events') # Opened(events))
            <=> \/ /\ lastItem'.type = "init"
                   /\ ~(/\ last_init_item # None
                        /\ lastItem'.payload = last_init_item.payload)
                \/ lastItem'.split
       /\ (lastItem'.type = "seg" /\ ~lastItem'.split) => events' = events]_vars

\* C9, amended: an on_next call opens a new file, after closing the open
\* one, exactly when its item is a non-redundant init section or a segment
\* whose chunk carries the split flag, and neither a probe nor the path
\* provider nor open() raises; the comparison's warnings play no part.  A
\* segment without the flag opens no file, and closes one only when its
\* write fails.
C9_Rotation ==
  [][nItems' = nItems + 1 =>
       LET wanted ==
             \/ /\ lastItem'.type = "init"
                /\ ~(/\ last_init_item # None
                     /\ lastItem'.payload = last_init_item.payload)
             \/ lastItem'.type = "seg" /\ lastItem'.split
           raised == outcome' \in {"probe_raised", "open_raised"}
       IN  /\ (Opened(events') # Opened(events)) <=> (wanted /\ ~raised)
           /\ (wanted /\ ~raised) =>
                /\ Len(files') = Len(files) + 1
                /\ Len(Opened(events')) = Len(Opened(events)) + 1
                /\ file # NoFile => files'[file].closed
                /\ file # NoFile =>
                     events'[Len(events) + 1] =
                       [type |-> "closed", path |-> path, timestamp |-> 0]
           /\ (lastItem'.type = "seg" /\ ~lastItem'.split) =>
                /\ Opened(events') = Opened(events)
                /\ events' # events => outcome' = "write_failed"]_vars

\* a second, distinct init section without the split flag, for which the
\* comparison logged no change, was written to a new file
C9_Witness ==
  /\ phase = "active" /\ outcome = "written"
  /\ lastItem.type = "init" /\ ~lastItem.split
  /\ warnings = {}
  /\ Len(emitted) >= 2
  /\ emitted[1].item.type = "init"
  /\ emitted[1].item.payload # lastItem.payload
  /\ emitted[Len(emitted)].fileno # emitted[1].fileno

\* C10: after a flagged segment is written while an init section is
\* retained, the open file holds that init section's payload and then the
\* segment's, and the last two notifications are the init section with
\* offset 0 and the segment with the init payload's length as offset; after
\* an init section is written, the open file holds its payload alone and it
\* was forwarded once, with offset 0.
C10_SplitWrites ==
  (phase = "active" /\ outcome = "written") =>
    LET n == Len(emitted)
    IN  /\ (lastItem.type = "seg" /\ lastItem.split) =>
             /\ last_init_item # None
             /\ file # NoFile
             /\ files[file].data = last_init_item.payload \o lastItem.payload
             /\ n >= 2
             /\ emitted[n - 1] =
                  [kind |-> "next", item |-> evolve(last_init_item, 0),
                   fileno |-> file]
             /\ emitted[n] =
                  [kind |-> "next",
                   item |-> evolve(lastItem, Len(last_init_item.payload)),
                   fileno |-> file]
             /\ Len(ForwardedTo(file, n)) = 2
        /\ lastItem.type = "init" =>
             /\ file # NoFile
             /\ files[file].data = lastItem.payload
             /\ n >= 1
             /\ emitted[n] =
                  [kind |-> "next", item |-> evolve(lastItem, 0), fileno |-> file]
             /\ Len(ForwardedTo(file, n)) = 1

\* a flagged segment closed the file of the session's init section and was
\* written, after that init section, to a second file
C10_Witness ==
  /\ phase = "active" /\ outcome = "written"
  /\ lastItem.type = "seg" /\ lastItem.split
  /\ Len(emitted) >= 3
  /\ emitted[1].item = evolve(last_init_item, 0)
  /\ emitted[1].fileno # file

\* the fields of RotationState
RotationReset ==
  /\ path = EmptyPath
  /\ file = NoFile
  /\ filesize = 0
  /\ last_init_item = None

\* C11: when a session has just begun (subscribe has returned and no item
\* has arrived) and when it has ended by completion, error or cancellation,
\* the path is empty, no file is held, the size is 0 and no init section is
\* retained.
C11_RotationStateReset ==
  (\/ phase \in {"completed", "errored", "cancelled"}
   \/ phase = "active" /\ outcome = "none")
    => RotationReset

\* a second session has begun after a session that opened a file
C11_Witness ==
  /\ phase = "active" /\ outcome = "none"
  /\ nSessions >= 2
  /\ files # <<>>

\* C12: a cancel of a session that is already over (cancelled, completed
\* or failed) changes no field, closes no file, emits no event and sends
\* nothing to the observer.
C12_CancelIdempotent ==
  [][outcome' = "disposed_again" => UNCHANGED <<Visible, disposed>>]_vars

\* a session that had a file open was cancelled, and cancelled again
C12_Witness ==
  /\ outcome = "disposed_again"
  /\ phase = "cancelled"
  /\ files # <<>>
  /\ events[Len(events)].type = "closed"

\* C19: whenever no file is open, the path is empty and the size is 0.
C19_NoFileNoPath == file = NoFile => (path = EmptyPath /\ filesize = 0)

\* C20: an on_next call with a segment, made while no init section is
\* retained, writes no byte and forwards nothing; it ends the session with
\* an error as the observer's last notification and with no file open.
C20_SegmentBeforeInit ==
  [][(/\ nItems' = nItems + 1
      /\ lastItem'.type = "seg"
      /\ last_init_item = None)
     => /\ \A i \in 1..Len(files') : i > Len(files) => files'[i].data = <<>>
        /\ \A i \in 1..Len(files) : files'[i].data = files[i].data
        /\ \A k \in 1..Len(emitted') : k > Len(emitted) => emitted'[k].kind = "error"
        /\ phase' = "errored"
        /\ emitted' # <<>>
        /\ emitted'[Len(emitted')].kind = "error"
        /\ file' = NoFile
        /\ \A i \in 1..Len(files') : files'[i].closed]_vars

\* ---- normalize_streams
\* the kinds of the descriptors of a list, in order
Kinds(streams) == [i \in 1..Len(streams) |-> Get(streams[i], "codec_type", "")]

\* the positions of the descriptors of a kind
OfKind(streams, kind) == {i \in 1..Len(streams) : Kinds(streams)[i] = kind}

\* the first descriptor of a kind; the list has one
First(streams, kind) ==
  streams[CHOOSE i \in OfKind(streams, kind) : \A j \in OfKind(streams, kind) : i <= j]

\* the k-th descriptor of a kind
RECURSIVE Nth(_, _, _)
Nth(streams, kind, k) ==
  IF Kinds(streams)[1] = kind
  THEN IF k = 1 THEN streams[1] ELSE Nth(Tail(streams), kind, k - 1)
  ELSE Nth(Tail(streams), kind, k)

\* descriptor b is descriptor a, but for tags
SameButTags(a, b) ==
  \A k \in DOMAIN a \ {"tags"} : k \in DOMAIN b /\ b[k] = a[k]

\* the descriptors of a kind of the result are those of the input, in order
GenuineKept(in, out, kind) ==
  OfKind(in, kind) # {} =>
    /\ Cardinality(OfKind(out, kind)) = Cardinality(OfKind(in, kind))
    /\ \A k \in 1..Cardinality(OfKind(in, kind)) :
         SameButTags(Nth(in, kind, k), Nth(out, kind, k))

\* C17: the normalized profile has a video and an audio descriptor; the
\* first of a kind is the placeholder "none" (video: width and height 0)
\* when the input has no descriptor of the kind; the input's descriptors of
\* a kind are all kept, in order, and none is replaced.
C17_OneOfEachKind ==
  normalized # NoProfile =>
    LET in  == Get(raw, "streams", <<>>)
        out == normalized.streams
    IN  /\ OfKind(out, "video") # {}
        /\ OfKind(out, "audio") # {}
        /\ OfKind(in, "audio") = {} =>
             First(out, "audio").codec_name = "none"
        /\ OfKind(in, "video") = {} =>
             /\ First(out, "video").codec_name = "none"
             /\ First(out, "video").width = 0
             /\ First(out, "video").height = 0
        /\ GenuineKept(in, out, "video")
        /\ GenuineKept(in, out, "audio")

\* two genuine video descriptors and no audio descriptor were normalized
C17_Witness ==
  /\ normalized # NoProfile
  /\ Cardinality(OfKind(Get(raw, "streams", <<>>), "video")) = 2
  /\ OfKind(Get(raw, "streams", <<>>), "audio") = {}
  /\ Len(normalized.streams) = 3

\* no two adjacent descriptors have the same kind
Alternates(streams) ==
  \A i \in 1..(Len(streams) - 1) : Kinds(streams)[i] # Kinds(streams)[i + 1]

\* C18 as claimed: the normalized list begins video, audio and no two
\* adjacent descriptors of it have the same kind.
C18_StrictAlternation ==
  normalized # NoProfile =>
    /\ Kinds(normalized.streams)[1] = "video"
    /\ Kinds(normalized.streams)[2] = "audio"
    /\ Alternates(normalized.streams)

Min(a, b) == IF a <= b THEN a ELSE b

\* C18: with v video and a audio descriptors in the normalized list, its
\* first 2*min(v,a) entries alternate video, audio, starting with video,
\* and the entries after them are all of the more numerous kind; the whole
\* list alternates exactly when a <= v <= a + 1.
C18_Interleaved ==
  normalized # NoProfile =>
    LET out == normalized.streams
        v   == Cardinality(OfKind(out, "video"))
        a   == Cardinality(OfKind(out, "audio"))
        m   == Min(v, a)
    IN  /\ m >= 1
        /\ Len(out) = v + a
        /\ \A i \in 1..m :
             /\ Kinds(out)[2 * i - 1] = "video"
             /\ Kinds(out)[2 * i] = "audio"
        /\ \A j \in (2 * m + 1)..Len(out) :
             Kinds(out)[j] = IF v > a THEN "video" ELSE "audio"
        /\ Alternates(out) <=> (a <= v /\ v <= a + 1)

\* one video and two audio descriptors: the list ends audio, audio
C18_Witness ==
  /\ normalized # NoProfile
  /\ Kinds(normalized.streams) = <<"video", "audio", "audio">>

\* ---- ffprobe
\* ffprobe has returned to its caller or raised
FfprobeLeft == fpc \in {"returned", "raised"}

\* C15: when communicate or json.loads fails, kill() is called before
\* wait(), so that wait() never waits for a process left running, and the
\* process has been killed and waited for when the exception reaches the
\* caller; whenever ffprobe returns or raises, no process is running or
\* waiting to be reaped.
C15_KilledAndReaped ==
  /\ fpc = "except_wait" => (kill_called /\ proc # "running")
  /\ (fpc = "raised" /\ proc # "none" /\ error # "AttributeError")
       => (kill_called /\ proc = "reaped")
  /\ FfprobeLeft => proc \in {"none", "reaped"}

\* communicate timed out and ffprobe has raised TimeoutExpired
C15_Witness ==
  /\ fpc = "raised"
  /\ error = "TimeoutExpired"
  /\ proc = "reaped"

\* C16: the action of ffprobe_on calls ffprobe once and then calls the
\* observer: on_next with the profile followed by on_completed when it
\* returned, on_error alone when it raised; nothing before, nothing else.
C16_OneValueOrOneError ==
  /\ calls <= 1
  /\ mode # "async_done" => delivered = <<>>
  /\ mode = "async_done" =>
       \/ /\ fpc = "returned"
          /\ Len(delivered) = 2
          /\ delivered[1].kind = "next"
          /\ delivered[1].value = result
          /\ result # NoProfile
          /\ delivered[2].kind = "completed"
       \/ /\ fpc = "raised"
          /\ Len(delivered) = 1
          /\ delivered[1].kind = "error"

\* the process printed no JSON and the observer got the error
C16_Witness ==
  /\ mode = "async_done"
  /\ error = "JSONDecodeError"
  /\ delivered # <<>>

\* ---- Analyser
\* a descriptor synthesized by normalize_streams
IsPlaceholder(d) == d.codec_name = "none"

\* C13: after a profile update the cached width and height are those of
\* the profile's first video descriptor, 0 and 0 when it is the
\* placeholder, and the cached sample rate and channel count are those of
\* its first audio descriptor, absent when it is the placeholder.
C13_CacheReplaced ==
  a_event = "profile" =>
    LET v == First(a_last.streams, "video")
        a == First(a_last.streams, "audio")
    IN  /\ video_width = IF IsPlaceholder(v) THEN 0 ELSE v.width
        /\ video_height = IF IsPlaceholder(v) THEN 0 ELSE v.height
        /\ audio_sample_rate =
             IF IsPlaceholder(a) THEN NoneStr ELSE Opt(a.sample_rate)
        /\ audio_channels =
             IF IsPlaceholder(a) THEN NoneInt ELSE Opt(a.channels)

\* C14: when a session of the analyser has just begun and when it has just
\* ended, the cached width and height are 0 and the cached sample rate and
\* channel count are absent.
C14_AnalyserStateReset ==
  a_event \in {"begin", "end"} =>
    /\ video_width = 0
    /\ video_height = 0
    /\ audio_sample_rate.state # "value"
    /\ audio_channels.state # "value"
====
